---- MODULE Spec2Model ----
(***************************************************************************)
(* A model of public/js/utilities/common.js: the numeric helpers (clamp,   *)
(* lerp, step, pulse, smoothstep, linstep) over binary floating point, and *)
(* the object helpers (extend, deep, inherit) over a heap of objects with  *)
(* prototype links.                                                        *)
(***************************************************************************)
EXTENDS Integers, Sequences, FiniteSets, TLC

VARIABLES
    fn, args, ret,                  \* the numeric helper called, its arguments, its result
    heap, pre, op, out, depth,      \* the heap, the heap before the call, the call, its outcome
    objs, prototype, uber, ran,     \* the objects, C.prototype, the P behind C.uber, the runs of each body
    links, linked, last             \* the inherit calls so far; the last call and the runs before it

numVars == <<fn, args, ret>>
objVars == <<heap, pre, op, out, depth>>
clsVars == <<objs, prototype, uber, ran, links, linked, last>>
vars == <<fn, args, ret, heap, pre, op, out, depth, objs, prototype, uber, ran, links, linked, last>>

NumIdle == fn = "none" /\ args = <<>> /\ ret = 0
ObjIdle == heap = <<>> /\ pre = <<>> /\ op = <<>> /\ out = "" /\ depth = 0
ClsIdle ==
    /\ objs = <<>> /\ prototype = <<>> /\ uber = <<>> /\ ran = <<>>
    /\ links = <<>> /\ linked = <<>> /\ last = <<>>

(***************************************************************************)
(* JavaScript numbers.  A Number is an IEEE-754 binary floating-point      *)
(* value: a significand of Prec bits (53 in binary64) times a power of     *)
(* two, every arithmetic result rounded to the nearest such value, ties to *)
(* the even significand.  A finite value v is held as the integer          *)
(* v * 2^Frac, the smallest positive number being 2^-Frac (gradual         *)
(* underflow).  +Infinity, -Infinity and NaN are held as PosInf, NegInf    *)
(* and NaN.                                                                *)
(***************************************************************************)
Prec == 4
Frac == 4
MaxIn == 24

RECURSIVE Pow2(_)
Pow2(k) == IF k = 0 THEN 1 ELSE 2 * Pow2(k - 1)

ONE == Pow2(Frac)
PosInf == Pow2(24)
NegInf == 0 - PosInf
NaN == PosInf + 1

Abs(n) == IF n < 0 THEN 0 - n ELSE n
IsNaN(v) == v = NaN

\* The weight 2^j of the last significand bit of the rational n/d (n >= 0, d > 0).
RECURSIVE Ulp(_, _, _)
Ulp(n, d, u) == IF n < Pow2(Prec) * d * u THEN u ELSE Ulp(n, d, 2 * u)

\* n/d (n >= 0, d > 0) rounded to an integer, ties to even.
RoundHalfEven(n, d) ==
    LET q == n \div d
        r == n % d
    IN  IF 2 * r < d THEN q
        ELSE IF 2 * r > d THEN q + 1
        ELSE IF q % 2 = 0 THEN q ELSE q + 1

\* The rational n/d (d > 0) rounded to a Number.
Round(n, d) ==
    LET m == Abs(n)
        u == Ulp(m, d, 1)
        r == RoundHalfEven(m, d * u) * u
    IN  IF n < 0 THEN 0 - r ELSE r

IsNumber(v) == Round(v, 1) = v
Nums == {v \in (0 - MaxIn)..MaxIn : IsNumber(v)}

Num(k) == k * ONE

\* x + y, x - y, x * y, x / y of JavaScript, on finite operands or NaN.
Add(x, y) == IF IsNaN(x) \/ IsNaN(y) THEN NaN ELSE Round(x + y, 1)
Sub(x, y) == IF IsNaN(x) \/ IsNaN(y) THEN NaN ELSE Round(x - y, 1)
Mul(x, y) == IF IsNaN(x) \/ IsNaN(y) THEN NaN ELSE Round(x * y, ONE)
Div(x, y) ==
    IF IsNaN(x) \/ IsNaN(y) THEN NaN
    ELSE IF y = 0 THEN (IF x = 0 THEN NaN ELSE IF x > 0 THEN PosInf ELSE NegInf)
    ELSE IF y > 0 THEN Round(x * ONE, y)
    ELSE Round((0 - x) * ONE, 0 - y)

\* Math.min, Math.max: NaN if an argument is NaN.
MathMin(x, y) == IF IsNaN(x) \/ IsNaN(y) THEN NaN ELSE IF x < y THEN x ELSE y
MathMax(x, y) == IF IsNaN(x) \/ IsNaN(y) THEN NaN ELSE IF x > y THEN x ELSE y
\* x < y of JavaScript: false when an operand is NaN.
Less(x, y) == ~IsNaN(x) /\ ~IsNaN(y) /\ x < y

\* clamp with Math.min and Math.max exchanged.
clamp_swapped(a, b, x) == MathMin(a, MathMax(b, x))

clamp(a, b, x) == MathMax(a, MathMin(b, x))

lerp(a, b, t) == Add(a, Mul(clamp(Num(0), Num(1), t), Sub(b, a)))

step(a, x) == IF Less(x, a) THEN Num(0) ELSE Num(1)

pulse(a, b, x) == Sub(step(a, x), step(b, x))

smoothstep(a, b, x) ==
    LET t == clamp(Num(0), Num(1), Div(Sub(x, a), Sub(b, a)))
    IN  Mul(Mul(Mul(t, t), t), Add(Mul(Sub(Mul(Num(6), t), Num(15)), t), Num(10)))

linstep(a, b, x) == clamp(Num(0), Num(1), Div(Sub(x, a), Sub(b, a)))

NumInit ==
    /\ fn = "none"
    /\ args \in Nums \X Nums \X Nums
    /\ ret = Num(0)
    /\ ObjIdle /\ ClsIdle

CallClamp ==
    /\ fn' = "clamp" /\ ret' = clamp(args[1], args[2], args[3]) /\ UNCHANGED <<args, objVars, clsVars>>
CallLerp ==
    /\ fn' = "lerp" /\ ret' = lerp(args[1], args[2], args[3]) /\ UNCHANGED <<args, objVars, clsVars>>
CallStep ==
    /\ fn' = "step" /\ ret' = step(args[1], args[3]) /\ UNCHANGED <<args, objVars, clsVars>>
CallPulse ==
    /\ fn' = "pulse" /\ ret' = pulse(args[1], args[2], args[3]) /\ UNCHANGED <<args, objVars, clsVars>>
CallSmoothstep ==
    /\ fn' = "smoothstep" /\ ret' = smoothstep(args[1], args[2], args[3]) /\ UNCHANGED <<args, objVars, clsVars>>
CallLinstep ==
    /\ fn' = "linstep" /\ ret' = linstep(args[1], args[2], args[3]) /\ UNCHANGED <<args, objVars, clsVars>>

NumNext == CallClamp \/ CallLerp \/ CallStep \/ CallPulse \/ CallSmoothstep \/ CallLinstep

SpecNum == NumInit /\ [][NumNext]_vars

(***************************************************************************)
(* JavaScript objects.  The heap maps each object to its prototype link    *)
(* and its own enumerable properties.  UserObjs are the objects a caller   *)
(* builds; Builtins are the four objects every plain object inherits from: *)
(* Object.prototype, Function.prototype and the functions Object and       *)
(* Function, with their non-enumerable constructor members (Hidden).  A    *)
(* value is an object of the heap or a primitive.                          *)
(***************************************************************************)
UserObjs == {"o1", "o2", "o3", "o4"}
ObjectPrototype == "Object.prototype"
FunctionPrototype == "Function.prototype"
Builtins == {ObjectPrototype, FunctionPrototype, "Object", "Function"}
Objs == UserObjs \cup Builtins
KeyOrder == <<"a", "b", "constructor">>
Keys == {KeyOrder[i] : i \in 1..Len(KeyOrder)}
DataKeys == {"a", "b"}
Null == "null"
Absent == "<absent>"
Undefined == "undefined"
NonObjects == {Null, Undefined, "5", "str", "true"}

\* The non-enumerable own members of the built-in objects.
Hidden(o, k) ==
    IF k = "constructor" /\ o = ObjectPrototype THEN "Object"
    ELSE IF k = "constructor" /\ o = FunctionPrototype THEN "Function"
    ELSE Absent

NoProps == [k \in Keys |-> Absent]
BuiltinHeap ==
    [o \in Builtins |->
        [proto |-> IF o = ObjectPrototype THEN Null
                   ELSE IF o = FunctionPrototype THEN ObjectPrototype
                   ELSE FunctionPrototype,
         own |-> NoProps]]

\* Object.prototype is on the prototype chain of o.
RECURSIVE OnChain(_, _)
OnChain(h, o) ==
    /\ h[o].proto # Null
    /\ (h[o].proto = ObjectPrototype \/ OnChain(h, h[o].proto))

\* v instanceof Object
InstanceofObject(h, v) == v \in Objs /\ OnChain(h, v)

\* o[k]: the own property, else the prototype chain's, else undefined.
RECURSIVE Get(_, _, _)
Get(h, o, k) ==
    IF h[o].own[k] # Absent THEN h[o].own[k]
    ELSE IF Hidden(o, k) # Absent THEN Hidden(o, k)
    ELSE IF h[o].proto = Null THEN Undefined
    ELSE Get(h, h[o].proto, k)

\* o[k] = v: creates or overwrites the own property.
Put(h, o, k, v) == [h EXCEPT ![o].own[k] = v]

\* The keys that for (k in o) visits: the own enumerable keys in creation
\* order, then those of the prototype chain that o does not shadow.
RECURSIVE ForIn(_, _)
ForIn(h, o) ==
    LET mine == SelectSeq(KeyOrder, LAMBDA k : h[o].own[k] # Absent)
    IN  IF h[o].proto = Null THEN mine
        ELSE mine \o SelectSeq(ForIn(h, h[o].proto),
                               LAMBDA k : h[o].own[k] = Absent /\ Hidden(o, k) = Absent)

\* for (var k in src) { dst[k] = src[k]; } over the keys ks still to visit.
RECURSIVE CopyKeys(_, _, _, _)
CopyKeys(h, dst, src, ks) ==
    IF ks = <<>> THEN h
    ELSE CopyKeys(Put(h, dst, Head(ks), Get(h, src, Head(ks))), dst, src, Tail(ks))

\* extend looping over its arguments from the last to the first.
RECURSIVE extend_leftmost(_, _, _)
extend_leftmost(h, dst, srcs) ==
    IF srcs = <<>> THEN h
    ELSE LET src == srcs[Len(srcs)]
         IN  extend_leftmost(IF InstanceofObject(h, src) THEN CopyKeys(h, dst, src, ForIn(h, src)) ELSE h,
                             dst, SubSeq(srcs, 1, Len(srcs) - 1))

\* extend leaving its loop at the first argument that is no object.
RECURSIVE extend_stops(_, _, _)
extend_stops(h, dst, srcs) ==
    IF srcs = <<>> \/ ~InstanceofObject(h, Head(srcs)) THEN h
    ELSE extend_stops(CopyKeys(h, dst, Head(srcs), ForIn(h, Head(srcs))), dst, Tail(srcs))

\* extend(dst, src...): the heap after the loop over arguments[1..]; the
\* call returns dst.
RECURSIVE extend(_, _, _)
extend(h, dst, srcs) ==
    IF srcs = <<>> THEN h
    ELSE LET src == Head(srcs)
         IN  extend(IF InstanceofObject(h, src) THEN CopyKeys(h, dst, src, ForIn(h, src)) ELSE h,
                    dst, Tail(srcs))

MaxSrcs == 2

\* The primitive that object o holds under key k before the call.
Prim(o, k) == o \o "." \o k

\* What a slot holds before the call: nothing, a primitive or an object.
Slot(o, k, c) == IF c = "v" THEN Prim(o, k) ELSE c

\* The heaps extend starts from: o1, o2 and o3 hold primitives under the data
\* keys and inherit from each other or from Object.prototype; o4 is empty.
ExtObjs == {"o1", "o2", "o3"}
ExtShapes ==
    {g \in [ExtObjs -> [proto : ExtObjs \cup {ObjectPrototype}, own : [DataKeys -> {Absent, "v"}]]] :
        \A o \in ExtObjs : g[o].proto = ObjectPrototype
                           \/ g[g[o].proto].proto = ObjectPrototype
                           \/ (g[g[o].proto].proto # o /\ g[g[g[o].proto].proto].proto = ObjectPrototype)}
ExtHeap(g) ==
    [o \in Objs |->
        IF o \in Builtins THEN BuiltinHeap[o]
        ELSE IF o \in ExtObjs
             THEN [proto |-> g[o].proto,
                   own |-> [k \in Keys |-> IF k \in DataKeys THEN Slot(o, k, g[o].own[k]) ELSE Absent]]
             ELSE [proto |-> ObjectPrototype, own |-> NoProps]]

SrcLists == UNION {[1..n -> ExtObjs \cup NonObjects] : n \in 0..MaxSrcs}

ExtInit ==
    /\ \E g \in ExtShapes : heap = ExtHeap(g)
    /\ pre = heap
    /\ op \in [name : {"extend"}, dst : {"o1"}, srcs : SrcLists]
    /\ out = "pending"
    /\ depth = 0
    /\ NumIdle /\ ClsIdle

CallExtend ==
    /\ out = "pending"
    /\ heap' = extend(heap, op.dst, op.srcs)
    /\ out' = op.dst
    /\ UNCHANGED <<pre, op, depth, numVars, clsVars>>

ExtNext == CallExtend

SpecExtend == ExtInit /\ [][ExtNext]_vars

(***************************************************************************)
(* deep(d, s).  A call is a result record: the heap it leaves, whether it  *)
(* ended in the engine's stack overflow (a RangeError, which no frame      *)
(* catches), and the deepest frame it reached.  n is the depth of the      *)
(* frame, 1 for the caller's call.                                         *)
(***************************************************************************)
StackLimit == 6

Max2(x, y) == IF x > y THEN x ELSE y

\* deep that never recurses: every key is assigned.
Descend_never(h, dp, sp) == FALSE

\* d[p] instanceof Object && s[p] instanceof Object
Descend(h, dp, sp) == InstanceofObject(h, dp) /\ InstanceofObject(h, sp)

RECURSIVE deep(_, _, _, _)
RECURSIVE deepKeys(_, _, _, _, _)

\* deep with a guard that skips a key under which d and s hold the same object.
deepKey_skipsSame(h, d, s, p, n) ==
    LET dp == Get(h, d, p)
        sp == Get(h, s, p)
    IN  IF dp = sp THEN [heap |-> h, thrown |-> FALSE, depth |-> n]
        ELSE IF InstanceofObject(h, dp) /\ InstanceofObject(h, sp) THEN deep(h, dp, sp, n + 1)
        ELSE [heap |-> Put(h, d, p, sp), thrown |-> FALSE, depth |-> n]

\* The body of the loop for key p.
deepKey(h, d, s, p, n) ==
    LET dp == Get(h, d, p)
        sp == Get(h, s, p)
    IN  IF Descend(h, dp, sp) THEN deep(h, dp, sp, n + 1)
        ELSE [heap |-> Put(h, d, p, sp), thrown |-> FALSE, depth |-> n]

\* for (var p in s) { ... } over the keys ks still to visit.
deepKeys(h, d, s, ks, n) ==
    IF ks = <<>> THEN [heap |-> h, thrown |-> FALSE, depth |-> n]
    ELSE LET r == deepKey(h, d, s, Head(ks), n)
         IN  IF r.thrown THEN r
             ELSE LET q == deepKeys(r.heap, d, s, Tail(ks), n)
                  IN  [q EXCEPT !.depth = Max2(r.depth, q.depth)]

deep(h, d, s, n) ==
    IF n > StackLimit THEN [heap |-> h, thrown |-> TRUE, depth |-> StackLimit]
    ELSE deepKeys(h, d, s, ForIn(h, s), n)

MaxRefs == 2

\* The heaps deep starts from: plain objects o1..o4 whose data keys hold
\* nothing, a primitive or one of o1..o4 (at most MaxRefs references in
\* all); o2 may also have an own key named constructor.
Slots == (UserObjs \X DataKeys) \cup {<<"o2", "constructor">>}
RefSlots == {R \in SUBSET Slots : Cardinality(R) <= MaxRefs}
DeepShape(R, r, q) == [c \in Slots |-> IF c \in R THEN r[c] ELSE q[c]]
DeepHeap(f) ==
    [o \in Objs |->
        IF o \in Builtins THEN BuiltinHeap[o]
        ELSE [proto |-> ObjectPrototype,
              own |-> [k \in Keys |-> IF <<o, k>> \in Slots THEN Slot(o, k, f[<<o, k>>]) ELSE Absent]]]

DeepInit ==
    /\ \E R \in RefSlots :
        \E r \in [R -> UserObjs], q \in [Slots \ R -> {Absent, "v"}] :
            heap = DeepHeap(DeepShape(R, r, q))
    /\ pre = heap
    /\ op \in [name : {"deep"}, dst : {"o1"}, srcs : {<<"o1">>, <<"o2">>}]
    /\ out = "pending"
    /\ depth = 0
    /\ NumIdle /\ ClsIdle

CallDeep ==
    /\ out = "pending"
    /\ LET r == deep(heap, op.dst, op.srcs[1], 1)
       IN  /\ heap' = r.heap
           /\ out' = IF r.thrown THEN "RangeError" ELSE Undefined
           /\ depth' = r.depth
    /\ UNCHANGED <<pre, op, numVars, clsVars>>

DeepNext == CallDeep

SpecDeep == DeepInit /\ [][DeepNext]_vars
(***************************************************************************)
(* inherit(C, P).  Classes are constructor functions.  objs is the         *)
(* sequence of the ordinary objects created so far (prototype objects and  *)
(* instances): the prototype link of each (0 is Object.prototype), its own *)
(* constructor property, and for an instance the class that made it and    *)
(* the parent that class was linked to when it was made.  uber[C] is the P *)
(* that the accessors C.uber and C.uberConstructor close over.             *)
(***************************************************************************)
MaxObjects == 7
None == "none"

\* o.constructor: the own property, else the prototype chain's.
RECURSIVE Constructor(_, _)
Constructor(os, o) ==
    IF o = 0 THEN "Object"
    ELSE IF os[o].ctor # Absent THEN os[o].ctor
    ELSE Constructor(os, os[o].proto)

\* The runs of the constructor bodies after new P().
NewP(r, P) == [r EXCEPT ![P] = @ + 1]

\* The runs of the constructor bodies after new F(): F's body is empty.
NewF(r, P) == r

ClassList == <<"A", "B", "C">>
Classes == {ClassList[i] : i \in 1..Len(ClassList)}

\* Before any call each class has the prototype object the language gave it:
\* a plain object whose constructor property is the class.
ClsInit ==
    /\ objs = [i \in 1..Len(ClassList) |->
                [proto |-> 0, ctor |-> ClassList[i], by |-> None, parent |-> None]]
    /\ prototype = [c \in Classes |-> CHOOSE i \in 1..Len(ClassList) : ClassList[i] = c]
    /\ uber = [c \in Classes |-> None]
    /\ ran = [c \in Classes |-> 0]
    /\ links = [c \in Classes |-> 0]
    /\ linked = [c \in Classes |-> [parent |-> None, stamp |-> 0, was |-> 0]]
    /\ last = [name |-> None, thrown |-> FALSE, ran |-> [c \in Classes |-> 0]]
    /\ NumIdle /\ ObjIdle

\* inherit(C, P).  Object.defineProperties throws a TypeError when C already
\* has the non-configurable accessors; C.prototype is replaced by then and
\* the constructor property is not set.
Inherit(C, P) ==
    /\ Len(objs) < MaxObjects
    /\ LET fresh == Len(objs) + 1
           redefined == uber[C] # None
       IN  /\ objs' = Append(objs, [proto |-> prototype[P],
                                    ctor |-> IF redefined THEN Absent ELSE C,
                                    by |-> None, parent |-> None])
           /\ prototype' = [prototype EXCEPT ![C] = fresh]
           /\ uber' = IF redefined THEN uber ELSE [uber EXCEPT ![C] = P]
           /\ ran' = NewF(ran, P)
           /\ links' = [links EXCEPT ![C] = @ + 1]
           /\ linked' = IF redefined THEN linked
                        ELSE [linked EXCEPT ![C] = [parent |-> P, stamp |-> links'[P],
                                                    was |-> prototype[P]]]
           /\ last' = [name |-> "inherit", thrown |-> redefined, ran |-> ran]
    /\ UNCHANGED <<numVars, objVars>>

\* new C(): an object whose prototype link is C.prototype; C's body runs.
Construct(C) ==
    /\ Len(objs) < MaxObjects
    /\ objs' = Append(objs, [proto |-> prototype[C], ctor |-> Absent,
                             by |-> C, parent |-> linked[C].parent])
    /\ ran' = [ran EXCEPT ![C] = @ + 1]
    /\ last' = [name |-> "new", thrown |-> FALSE, ran |-> ran]
    /\ UNCHANGED <<prototype, uber, links, linked, numVars, objVars>>

ClsNext ==
    \/ \E C, P \in Classes : Inherit(C, P)
    \/ \E C \in Classes : Construct(C)

SpecInherit == ClsInit /\ [][ClsNext]_vars

(***************************************************************************)
(* Properties of the numeric helpers.                                      *)
(***************************************************************************)
ArgA == args[1]
ArgB == args[2]
ArgX == args[3]

\* C6: pulse(a, b, x) returns 1 if a <= x <= b and 0 otherwise; the upper
\* bound is inclusive and the result is never a value other than 0 or 1.
PulseIsInclusiveIndicator ==
    fn = "pulse" =>
        /\ ret = (IF ArgA <= ArgX /\ ArgX <= ArgB THEN Num(1) ELSE Num(0))
        /\ ret \in {Num(0), Num(1)}

\* C7: for a <= b, clamp(a, b, x) is x when a <= x <= b, a when x < a and b
\* when x > b; the result lies in [a, b] and clamping it again changes nothing.
ClampRestrictsToInterval ==
    fn = "clamp" /\ ArgA <= ArgB =>
        /\ (ArgA <= ArgX /\ ArgX <= ArgB => ret = ArgX)
        /\ (ArgX < ArgA => ret = ArgA)
        /\ (ArgX > ArgB => ret = ArgB)
        /\ ArgA <= ret /\ ret <= ArgB
        /\ clamp(ArgA, ArgB, ret) = ret

ClampAboveReached == fn = "clamp" /\ ArgA < ArgB /\ ArgX > ArgB /\ ret = ArgB

\* C8: lerp(a, b, 0) = a and lerp(a, b, 1) = b; t <= 0 gives a and t >= 1
\* gives b; for b > a the result does not decrease as t grows, and every
\* result lies between a and b.
LerpEndpointsAndRange ==
    fn = "lerp" =>
        /\ (ArgX = Num(0) => ret = ArgA)
        /\ (ArgX = Num(1) => ret = ArgB)
        /\ (ArgX <= Num(0) => ret = ArgA)
        /\ (ArgX >= Num(1) => ret = ArgB)
        /\ (ArgB > ArgA => \A t \in Nums : t >= ArgX => lerp(ArgA, ArgB, t) >= ret)
        /\ (ArgA <= ret /\ ret <= ArgB) \/ (ArgB <= ret /\ ret <= ArgA)

\* C9: for a < b, smoothstep(a, b, x) is 0 for x <= a and 1 for x >= b, does
\* not decrease as x grows, lies in [0, 1], and is t*t*t*((6*t-15)*t+10) with
\* t = linstep(a, b, x).
SmoothstepMonotoneInUnitRange ==
    fn = "smoothstep" /\ ArgA < ArgB =>
        /\ (ArgX <= ArgA => ret = Num(0))
        /\ (ArgX >= ArgB => ret = Num(1))
        /\ \A x \in Nums : x >= ArgX => smoothstep(ArgA, ArgB, x) >= ret
        /\ Num(0) <= ret /\ ret <= Num(1)
        /\ LET t == linstep(ArgA, ArgB, ArgX)
           IN  ret = Mul(Mul(Mul(t, t), t), Add(Mul(Sub(Mul(Num(6), t), Num(15)), t), Num(10)))

(***************************************************************************)
(* Properties of extend.                                                   *)
(***************************************************************************)
Dst == op.dst
Srcs == op.srcs
Returned == out # "pending"

\* k is a key of o: for (k in o) visits it.
IsKey(h, o, k) == \E i \in 1..Len(ForIn(h, o)) : ForIn(h, o)[i] = k

\* The positions of the object-like sources that have key k.
SourcesWith(h, k) ==
    {i \in 1..Len(Srcs) : InstanceofObject(h, Srcs[i]) /\ IsKey(h, Srcs[i], k)}
Last(S) == CHOOSE i \in S : \A j \in S : j <= i

RECURSIVE Chain(_, _)
Chain(h, o) == {o} \cup (IF h[o].proto \in Objs THEN Chain(h, h[o].proto) ELSE {})

\* No source is dst or inherits from dst.
DstIsNoSource == \A i \in 1..Len(Srcs) : Srcs[i] \in Objs => Dst \notin Chain(pre, Srcs[i])

\* C1: extend returns dst itself; afterwards dst[k] is the value of k in the
\* last object-like source that has k (also the value that source had before
\* the call, when dst is not among the sources' prototype chains), and a key
\* that occurs in no object-like source keeps its value.
ExtendRightmostWins ==
    Returned =>
        /\ out = Dst
        /\ \A k \in Keys :
            IF SourcesWith(heap, k) # {}
            THEN /\ Get(heap, Dst, k) = Get(heap, Srcs[Last(SourcesWith(heap, k))], k)
                 /\ DstIsNoSource =>
                        Get(heap, Dst, k) = Get(pre, Srcs[Last(SourcesWith(pre, k))], k)
            ELSE Get(heap, Dst, k) = Get(pre, Dst, k)

ExtendCollisionReached ==
    /\ out = "o1" /\ Srcs = <<"o2", "o3">>
    /\ pre["o2"].own["a"] = Prim("o2", "a") /\ pre["o3"].own["a"] = Prim("o3", "a")
    /\ pre["o2"].proto = ObjectPrototype /\ pre["o3"].proto = ObjectPrototype
    /\ pre["o1"].own["b"] = Prim("o1", "b")
    /\ pre["o2"].own["b"] = Absent /\ pre["o3"].own["b"] = Absent
    /\ heap["o1"].own["a"] = Prim("o3", "a") /\ heap["o1"].own["b"] = Prim("o1", "b")

RemoveAt(q, i) == [j \in 1..(Len(q) - 1) |-> IF j < i THEN q[j] ELSE q[j + 1]]

\* C2: a source that is not object-like is skipped: the call leaves what the
\* call without that source leaves, wherever the source stands, and returns
\* dst without an error.
ExtendSkipsNonObjects ==
    Returned =>
        \A i \in 1..Len(Srcs) :
            ~InstanceofObject(pre, Srcs[i]) =>
                out = Dst /\ heap = extend(pre, Dst, RemoveAt(Srcs, i))

ExtendSkipReached ==
    /\ out = "o1" /\ Srcs = <<Null, "o2">>
    /\ pre["o1"].own["a"] = Absent
    /\ heap["o1"].own["a"] = Prim("o2", "a")

(***************************************************************************)
(* Properties of deep.                                                     *)
(***************************************************************************)
Src == op.srcs[1]

\* The objects that o holds under the keys of the sequence ks.
ObjectsAt(h, o, ks) ==
    SelectSeq([i \in 1..Len(ks) |-> Get(h, o, ks[i])], LAMBDA v : InstanceofObject(h, v))

\* The objects o holds: under its own and inherited enumerable keys (K = {}),
\* or under the keys K, found on o or on its prototype chain.
Kids(h, o, K) ==
    ObjectsAt(h, o, IF K = {} THEN ForIn(h, o) ELSE SelectSeq(KeyOrder, LAMBDA k : k \in K))

\* A walk from the objects todo: the objects met, and whether none was met twice.
RECURSIVE Walk(_, _, _, _)
Walk(h, todo, seen, K) ==
    IF todo = <<>> THEN [tree |-> TRUE, seen |-> seen]
    ELSE LET o == Head(todo)
             rest == Walk(h, Tail(todo) \o (IF o \in seen THEN <<>> ELSE Kids(h, o, K)),
                          seen \cup {o}, K)
         IN  [tree |-> rest.tree /\ o \notin seen, seen |-> rest.seen]

Reach(h, o, K) == Walk(h, <<o>>, {}, K).seen
IsTree(h, o, K) == Walk(h, <<o>>, {}, K).tree

\* s contains a self-referential structure.
Cyclic(h, s) == \E x \in Reach(h, s, {}) : x \in Walk(h, Kids(h, x, {}), {}, {}).seen

\* The keys that occur in s, at any level.
KeysIn(h, s) == {k \in Keys : \E y \in Reach(h, s, {}) : IsKey(h, y, k)}

\* The number of objects on the longest chain of enumerable keys from o.
RECURSIVE Height(_, _, _)
Height(h, o, n) ==
    IF n = 0 THEN 1
    ELSE LET hs == {Height(h, Kids(h, o, {})[i], n - 1) : i \in 1..Len(Kids(h, o, {}))}
         IN  1 + (IF hs = {} THEN 0 ELSE CHOOSE m \in hs : \A e \in hs : e <= m)

\* d is a finite tree that shares no object with s (enumerable keys).
TreeApart(h, d, s) ==
    IsTree(h, d, {}) /\ Reach(h, d, {}) \cap Reach(h, s, {}) = {}

\* The same, counting what d's objects hold under the keys of s as d[p] finds
\* it: on the object or on its prototype chain, enumerable or not.
LookupTreeApart(h, d, s) ==
    /\ TreeApart(h, d, s)
    /\ KeysIn(h, s) # {} =>
        /\ IsTree(h, d, KeysIn(h, s))
        /\ Reach(h, d, KeysIn(h, s)) \cap Reach(h, s, {}) = {}

SourceUnchanged == \A y \in Reach(pre, Src, {}) : heap[y] = pre[y]

\* What the claim says of one level: d against s.
UnionAt(d, s) ==
    \A p \in Keys :
        IF IsKey(pre, s, p)
        THEN IF InstanceofObject(pre, Get(pre, d, p)) /\ InstanceofObject(pre, Get(pre, s, p))
             THEN /\ Get(heap, d, p) = Get(pre, d, p)
                  /\ \A k \in Keys :
                        IsKey(pre, Get(pre, d, p), k) /\ ~IsKey(pre, Get(pre, s, p), k) =>
                            Get(heap, Get(pre, d, p), k) = Get(pre, Get(pre, d, p), k)
             ELSE Get(heap, d, p) = Get(pre, s, p)
        ELSE Get(heap, d, p) = Get(pre, d, p)

\* C3: deep(d, s) is a recursive union: for every key p of s, an object under
\* p in both d and s stays in d and keeps the keys only it had, any other
\* d[p] is set to s[p]; a key of d that is not a key of s is unchanged, and s
\* is not modified when d and s share no objects.  Said of the calls that
\* return, which return no value.
DeepIsUnion ==
    out = Undefined =>
        /\ UnionAt(Dst, Src)
        /\ TreeApart(pre, Dst, Src) => SourceUnchanged

\* The recursive union of d with s, at every level.
RECURSIVE Merged(_, _)
Merged(d, s) ==
    \A p \in Keys :
        IF IsKey(pre, s, p)
        THEN IF InstanceofObject(pre, Get(pre, d, p)) /\ InstanceofObject(pre, Get(pre, s, p))
             THEN Get(heap, d, p) = Get(pre, d, p) /\ Merged(Get(pre, d, p), Get(pre, s, p))
             ELSE Get(heap, d, p) = Get(pre, s, p)
        ELSE Get(heap, d, p) = Get(pre, d, p)

\* C3, amended: when what d holds under the keys of s is a finite tree that
\* shares no object with s, deep returns no value, d is the recursive union
\* (an object under a key of both is kept and merged, any other key of s is
\* assigned, a key of d alone is left), and s is not modified.
DeepIsUnionOfTree ==
    Returned /\ LookupTreeApart(pre, Dst, Src) =>
        /\ out = Undefined
        /\ Merged(Dst, Src)
        /\ UnionAt(Dst, Src)
        /\ SourceUnchanged

DeepUnionReached ==
    /\ Returned /\ LookupTreeApart(pre, Dst, Src) /\ Src = "o2"
    /\ pre["o1"].own["a"] = "o3" /\ pre["o2"].own["a"] = "o4"
    /\ pre["o3"].own["a"] = Prim("o3", "a") /\ pre["o3"].own["b"] = Prim("o3", "b")
    /\ pre["o4"].own["a"] = Prim("o4", "a") /\ pre["o4"].own["b"] = Absent
    /\ heap["o1"].own["a"] = "o3"
    /\ heap["o3"].own["a"] = Prim("o4", "a") /\ heap["o3"].own["b"] = Prim("o3", "b")

\* C4 as stated: a cyclic source makes deep overflow the stack, for every d.
DeepOverflowsOnCyclicSource == Returned /\ Cyclic(pre, Src) => out = "RangeError"

\* C4, amended: deep has no cycle detection: with a cyclic s it overflows the
\* stack when d is s itself.
DeepOverflowsOnItself ==
    Returned /\ Dst = Src /\ Cyclic(pre, Src) => out = "RangeError"

DeepOverflowReached ==
    Dst = Src /\ Cyclic(pre, Src) /\ out = "RangeError" /\ depth = StackLimit

\* C10: deep returns whenever d is a finite tree that shares no object with s,
\* for every s, and its recursion is no deeper than d.
DeepReturnsOnTree ==
    Returned /\ TreeApart(pre, Dst, Src) =>
        out = Undefined /\ depth <= Height(pre, Dst, Cardinality(UserObjs))
(***************************************************************************)
(* Properties of inherit.                                                  *)
(***************************************************************************)
\* The instances made by a class after inherit linked it to a parent.
Instances == {i \in 1..Len(objs) : objs[i].by # None /\ objs[i].parent # None}

\* inherit runs no constructor body: the runs are those before the call.
InheritRunsNoBody == last.name = "inherit" => ran = last.ran

====
